---------------------------- MODULE Spec2Model ----------------------------
(***************************************************************************)
(* Model of packages/user-mgmt/src/index.ts: the user-management Worker.   *)
(*                                                                         *)
(* State: the rows of the User table behind env.usersDB, the sessions held *)
(* by the session service behind env.sessionService, the requests that are *)
(* suspended at an await on one of the two, and the exchange whose         *)
(* response fetch is returning (the request, what the handler returned,    *)
(* what fetch returns and the outbound calls it issued).                   *)
(*                                                                         *)
(* JavaScript runs a handler without interruption from one await to the    *)
(* next, so an action is the code between two awaits on shared state.      *)
(* Text the code takes apart (cookies, stored password hashes, session     *)
(* ids) is a sequence of one-character strings.                            *)
(*                                                                         *)
(* Four specifications share the handlers: Spec serves any requests one    *)
(* after the other, with either service free to fail at every call;        *)
(* SpecRace has two registrations in flight at a time; SpecInterleaved     *)
(* has registrations, logins, logouts and load-user requests in flight at  *)
(* a time; SpecClient is one client going through the session lifecycle.   *)
(* The variable unique says whether the User table enforces unique         *)
(* usernames.  SpecPassword and SpecCookie apply the password functions    *)
(* and the cookie decoding to inputs of their own, held in the variable    *)
(* probe with the results.                                                 *)
(***************************************************************************)
EXTENDS Integers, Sequences, FiniteSets, TLC

VARIABLES users, unique, sessions, issued, inflight, last, client, probe

vars == <<users, unique, sessions, issued, inflight, last, client, probe>>

---------------------------------------------------------------------------
(* Bounds of the model.                                                    *)

\* Rows the User table may hold.
MaxUsers == 2

\* Sessions the session service may create.
MaxSessions == 2

\* Requests that may be suspended at an await at the same time.
Workers == {"w1", "w2"}

\* Characters of the passwords the password functions are applied to on
\* their own.
MaxPasswordLen == 2

\* Characters of the session ids the cookie decoding is applied to on its
\* own.
MaxIdLen == 3

---------------------------------------------------------------------------
(* Text.                                                                   *)

\* JavaScript's undefined (a field the JSON body does not have) and null
\* (a header the request does not have).  Neither is a text.
UNDEFINED == <<"undefined">>
NULL == <<"null">>

IsText(s) == s # UNDEFINED /\ s # NULL

\* JavaScript truthiness of a text, undefined or null: `if (x)`, `!x`.
Truthy(s) == IsText(s) /\ Len(s) > 0

\* s.startsWith(prefix)
StartsWith(s, prefix) ==
    /\ Len(s) >= Len(prefix)
    /\ SubSeq(s, 1, Len(prefix)) = prefix

\* Positions of the separator character in s.
SepPositions(s, sep) == {i \in 1..Len(s) : s[i] = sep}

\* s.split(sep) for a one-character separator: the pieces between the
\* separators, in order (one more piece than there are separators).
RECURSIVE Split(_, _)
Split(s, sep) ==
    IF SepPositions(s, sep) = {}
    THEN <<s>>
    ELSE LET i == CHOOSE k \in SepPositions(s, sep) :
                      \A j \in SepPositions(s, sep) : k <= j
         IN  <<SubSeq(s, 1, i - 1)>> \o Split(SubSeq(s, i + 1, Len(s)), sep)

\* s.trim(): the text without leading and trailing spaces.
RECURSIVE Trim(_)
Trim(s) ==
    IF s = <<>> THEN s
    ELSE IF Head(s) = " " THEN Trim(Tail(s))
    ELSE IF s[Len(s)] = " " THEN Trim(SubSeq(s, 1, Len(s) - 1))
    ELSE s

\* array.find(pred): the first element of a sequence of texts that starts
\* with the prefix, undefined when there is none.
FindStartsWith(parts, prefix) ==
    LET hits == {i \in 1..Len(parts) : StartsWith(parts[i], prefix)}
    IN  IF hits = {} THEN UNDEFINED
        ELSE parts[CHOOSE k \in hits : \A j \in hits : k <= j]

\* array[i] of a JavaScript array (0-based), undefined past its end.
At(parts, i) == IF i + 1 <= Len(parts) THEN parts[i + 1] ELSE UNDEFINED

---------------------------------------------------------------------------
(* Requests and responses.                                                 *)

\* headers.get(name) of a header the request does not carry, and the null
\* that getValidatedOrigin returns.
NONE == "<null>"

\* The Origin header values a client may send: two web origins, an origin
\* with another scheme, and the text "null" that browsers send for an
\* opaque origin, which is not a URL.
OriginValues ==
    {"https://app.example", "http://localhost:8787", "ftp://files.example", "null"}

\* new URL(text).protocol on the origin values; "TypeError" where the
\* constructor throws because the text is not a URL.
URLProtocol(text) ==
    CASE text = "https://app.example" -> "https:"
      [] text = "http://localhost:8787" -> "http:"
      [] text = "ftp://files.example" -> "ftp:"
      [] OTHER -> "TypeError"

\* What a call of a function that may throw gives: the value it returns,
\* or threw = TRUE.
Returned(v) == [threw |-> FALSE, value |-> v]
Thrown == [threw |-> TRUE, value |-> NONE]

\* A response that never came to be: the handler, or fetch itself, ended
\* with an exception nothing caught.
Uncaught ==
    [threw |-> TRUE, status |-> 0, msg |-> "uncaught exception", data |-> {},
     headers |-> [h \in {} |-> NONE], setCookie |-> {}]

\* new Response(body, {status, headers}); data holds the JSON payload of a
\* body that is not one of the fixed messages.
Response(status, msg, data, headers, setCookie) ==
    [threw |-> FALSE, status |-> status, msg |-> msg, data |-> data,
     headers |-> headers, setCookie |-> setCookie]

\* No headers.
NoHeaders == [h \in {} |-> NONE]

\* headers.set(name, value)
SetHeader(headers, name, value) ==
    [h \in DOMAIN headers \cup {name} |->
        IF h = name THEN value ELSE headers[h]]

\* getValidatedOrigin(request): null without an Origin header or with a
\* scheme other than http and https, the header's value otherwise; new URL
\* throws on a value that is not a URL, and nothing here catches it.
getValidatedOrigin(request) ==
    IF request.origin = NONE THEN Returned(NONE)
    ELSE LET protocol == URLProtocol(request.origin)
         IN  IF protocol = "TypeError" THEN Thrown
             ELSE IF protocol = "http:" \/ protocol = "https:"
                  THEN Returned(request.origin)
                  ELSE Returned(NONE)

\* getValidatedOrigin(request) || "*", where it returns.
OriginOrStar(request) ==
    IF getValidatedOrigin(request).value = NONE THEN "*"
    ELSE getValidatedOrigin(request).value

---------------------------------------------------------------------------
(* Passwords.                                                              *)

\* The salts crypto.getRandomValues(new Uint8Array(16)).join('') may give:
\* the decimal digits of the bytes, run together.
Salts == {<<"4", "2">>}

\* One character of salt + password as a hex digit of the digest.
HexDigit(c) ==
    CASE c = "7" -> "0"
      [] c = "4" -> "1"
      [] c = "2" -> "2"
      [] c = "p" -> "a"
      [] c = "q" -> "b"
      [] c = ":" -> "c"
      [] OTHER -> "f"

\* crypto.subtle.digest(SHA-256, data) written as hex: the digest taken as
\* an injective function of the data, one hex digit for each character.
Sha256Hex(data) == [i \in 1..Len(data) |-> HexDigit(data[i])]

\* hashPassword(password) with the salt it drew: `${salt}:${hashHex}`.
hashPassword(password, salt) == salt \o <<":">> \o Sha256Hex(salt \o password)

\* Mutant of comparePassword: the salt is left out of the digest.
comparePasswordNoSalt(providedPassword, storedHash) ==
    Sha256Hex(providedPassword) = At(Split(storedHash, ":"), 1)

\* comparePassword(providedPassword, storedHash): the stored text is split
\* on ':' into salt and hash, and the digest of salt + password compared.
comparePassword(providedPassword, storedHash) ==
    LET salt == At(Split(storedHash, ":"), 0)
        originalHash == At(Split(storedHash, ":"), 1)
    IN  Sha256Hex(salt \o providedPassword) = originalHash

---------------------------------------------------------------------------
(* The session cookie.                                                     *)

CookieName == <<"c", "f", "w", "_", "s", "e", "s", "s", "i", "o", "n">>

CookiePrefix == CookieName \o <<"=">>

\* The session id handleLoadUser and handleLogout read from the Cookie
\* header: null without the header or without a cfw_session entry, else
\* the second piece of the entry split on '='.
SessionIdOf(cookieHeader) ==
    IF ~Truthy(cookieHeader) THEN NULL
    ELSE LET pieces == Split(cookieHeader, ";")
             cookies == [i \in 1..Len(pieces) |-> Trim(pieces[i])]
             sessionCookie == FindStartsWith(cookies, CookiePrefix)
         IN  IF Truthy(sessionCookie)
             THEN At(Split(sessionCookie, "="), 1)
             ELSE NULL

\* The Set-Cookie header of a successful login:
\* `cfw_session=${sessionId}; Secure; Path=/; SameSite=None; Max-Age=${60 * 30}`
LoginCookie(sessionId) ==
    [name |-> CookieName, value |-> sessionId,
     attrs |-> {"Secure", "Path=/", "SameSite=None"}, maxAge |-> 60 * 30]

\* The Set-Cookie header of logout:
\* 'cfw_session=; HttpOnly; Secure; SameSite=Strict; Max-Age=0'
ClearedCookie ==
    [name |-> CookieName, value |-> <<>>,
     attrs |-> {"HttpOnly", "Secure", "SameSite=Strict"}, maxAge |-> 0]

\* The Cookie header a client sends back for a cookie it was given.
CookieHeaderFor(cookie) == cookie.name \o <<"=">> \o cookie.value

---------------------------------------------------------------------------
(* The two services the Worker calls, and what a client may send.          *)

Usernames == {<<"a">>, <<"b">>}
Passwords == {<<"p">>, <<"q">>}
FirstNames == {<<"A">>}
LastNames == {<<"B">>}

\* A JSON object over the keys the Worker and the session service use; a
\* key the object does not have is undefined.
Json(username, firstName, lastName, error) ==
    [username |-> username, firstName |-> firstName, lastName |-> lastName,
     error |-> error]

\* The JSON the session service answers get/<id> with when it holds no
\* session of that id.
SessionNotFound == Json(UNDEFINED, UNDEFINED, UNDEFINED, <<"n", "o">>)

\* The n-th id the session service issues; it never issues an id twice.
IdText(n) == <<"s", <<"1", "2", "3", "4", "5", "6", "7", "8", "9">>[n]>>

\* What env.usersDB may do with a SELECT: answer it, answer with
\* success = false and no rows, or throw.
QueryOutcomes == {"ok", "fail", "throw"}

\* What env.usersDB may do with an INSERT: run it or throw.
InsertOutcomes == {"ok", "throw"}

\* What env.sessionService.fetch may do: serve the call, answer with an
\* error response (an empty body that is no id and no JSON), or throw
\* because the service cannot be reached.
FetchOutcomes == {"ok", "error", "throw"}

\* SELECT ... FROM User WHERE Username = ?: the rows of that username, in
\* the order they were inserted.
RowsOf(username) == SelectSeq(users, LAMBDA row : row.Username = username)

\* The D1 result of the SELECT under an outcome that does not throw.
QueryResult(username, outcome) ==
    IF outcome = "ok"
    THEN [success |-> TRUE, results |-> RowsOf(username)]
    ELSE [success |-> FALSE, results |-> <<>>]

\* A row of the User table.
Row(username, passwordHash, firstName, lastName) ==
    [Username |-> username, Password |-> passwordHash,
     FirstName |-> firstName, LastName |-> lastName]

NoRow == Row(UNDEFINED, UNDEFINED, UNDEFINED, UNDEFINED)

\* The body of a request: whether request.json() can parse it, and the
\* fields of the object it parses to.
Body(json, username, password, firstName, lastName) ==
    [json |-> json, username |-> username, password |-> password,
     firstName |-> firstName, lastName |-> lastName]

NoBody == Body(FALSE, UNDEFINED, UNDEFINED, UNDEFINED, UNDEFINED)

EmptyObject == Body(TRUE, UNDEFINED, UNDEFINED, UNDEFINED, UNDEFINED)

Request(method, path, origin, acrm, acrh, cookie, body) ==
    [method |-> method, path |-> path, origin |-> origin, acrm |-> acrm,
     acrh |-> acrh, cookie |-> cookie, body |-> body]

Origins == OriginValues \cup {NONE}

\* The Origin headers of the requests to the handlers that call a service:
\* none, a web origin, and the text that is not a URL.
SomeOrigins == {NONE, "https://app.example", "null"}

\* The texts a JSON field of a body may hold: a value, the empty text, or
\* nothing (the field is missing).
FieldValues(values) == values \cup {<<>>, UNDEFINED}

RegisterRequests ==
    {Request("POST", "/register", o, NONE, NONE, NULL, b) :
        o \in SomeOrigins,
        b \in {NoBody} \cup
              {Body(TRUE, u, p, f, l) :
                  u \in FieldValues(Usernames), p \in FieldValues(Passwords),
                  f \in FirstNames, l \in LastNames}}

LoginRequests ==
    {Request("POST", "/login", o, NONE, NONE, NULL, b) :
        o \in SomeOrigins,
        b \in {NoBody} \cup
              {Body(TRUE, u, p, UNDEFINED, UNDEFINED) :
                  u \in FieldValues(Usernames), p \in FieldValues(Passwords)}}

\* The Cookie headers a client may send: none, the cookie of an id the
\* service issues (alone, or after another cookie), the cleared cookie, and
\* a header without the session cookie.
CookieHeaders ==
    {NULL, CookieHeaderFor(ClearedCookie), <<"t", "=", "1">>,
     <<"t", "=", "1", ";", " ">> \o CookieHeaderFor(LoginCookie(IdText(1)))}
    \cup {CookieHeaderFor(LoginCookie(IdText(n))) : n \in 1..MaxSessions}

LogoutRequests ==
    {Request("POST", "/logout", o, NONE, NONE, c, NoBody) :
        o \in SomeOrigins, c \in CookieHeaders}

LoadUserRequests ==
    {Request("GET", "/load-user", o, NONE, NONE, c, NoBody) :
        o \in SomeOrigins, c \in CookieHeaders}

ForgotPasswordRequests ==
    {Request("POST", "/forgot-password", o, NONE, NONE, NULL, b) :
        o \in Origins, b \in {NoBody, EmptyObject}}

OtherRequests ==
    {Request(m, "/", o, NONE, NONE, NULL, NoBody) :
        m \in {"GET", "POST"}, o \in Origins}

OptionsRequests ==
    {Request("OPTIONS", path, o, acrm, acrh, NULL, NoBody) :
        path \in {"/login", "/"}, o \in Origins, acrm \in {NONE, "POST"},
        acrh \in {NONE, "content-type"}}

---------------------------------------------------------------------------
(* Responses of the handlers.                                              *)

JsonHeaders(request) ==
    SetHeader(SetHeader(NoHeaders, "Access-Control-Allow-Origin",
                        OriginOrStar(request)),
              "Content-Type", "application/json")

MissingFields == Response(400, "Missing required fields", {}, NoHeaders, {})
UserExists == Response(409, "User already exists", {}, NoHeaders, {})
\* Mutant of Registered: the status is left at its default.
RegisteredDefaultStatus ==
    Response(200, "User registered successfully", {}, NoHeaders, {})

Registered == Response(201, "User registered successfully", {}, NoHeaders, {})
\* Mutant of InternalError: handleRegister without its catch block.
InternalErrorRethrown == Uncaught

InternalError == Response(500, "Internal server error", {}, NoHeaders, {})
InvalidCredentials == Response(401, "Invalid credentials", {}, NoHeaders, {})
LoginFailed == Response(401, "Login failed", {}, NoHeaders, {})
NotLoggedIn == Response(401, "User not logged in", {}, NoHeaders, {})
PasswordResetInitiated ==
    Response(200, "Password reset initiated", {}, NoHeaders, {})
NotFound == Response(404, "Not Found", {}, NoHeaders, {})

\* The response of handleLogin once the session service has replied with
\* sessionId: getValidatedOrigin runs inside the try block, so where it
\* throws the catch block logs the error and the function falls through to
\* 'Login failed'.
LoginReplied(request, sessionId) ==
    IF getValidatedOrigin(request).threw THEN LoginFailed
    ELSE Response(200, "Login successful", {}, JsonHeaders(request),
                  {LoginCookie(sessionId)})

\* The response of handleLogout.
LogoutSuccessful ==
    Response(200, "Logout successful", {}, NoHeaders, {ClearedCookie})

\* The response of handleLoadUser for the JSON the session service gave:
\* getValidatedOrigin runs outside any try block.
SessionLoaded(request, sessionData) ==
    IF getValidatedOrigin(request).threw THEN Uncaught
    ELSE Response(200, "", {sessionData}, JsonHeaders(request), {})

\* The corsHeaders object.
corsHeaders ==
    [h \in {"Access-Control-Allow-Origin", "Access-Control-Allow-Methods",
            "Access-Control-Max-Age", "Access-Control-Allow-Credentials"} |->
        CASE h = "Access-Control-Allow-Origin" -> "*"
          [] h = "Access-Control-Allow-Methods" -> "GET,HEAD,POST,OPTIONS"
          [] h = "Access-Control-Max-Age" -> "86400"
          [] OTHER -> "true"]

\* handleOptions(request): the pre-flight response where the request has
\* the three headers, the plain OPTIONS response otherwise.
handleOptions(request) ==
    IF request.origin # NONE /\ request.acrm # NONE /\ request.acrh # NONE
    THEN IF getValidatedOrigin(request).threw THEN Uncaught
         ELSE Response(200, "", {},
                  SetHeader(
                    SetHeader(
                      SetHeader(
                        SetHeader(corsHeaders, "Access-Control-Allow-Headers",
                                  request.acrh),
                        "Content-Type", "text/plain"),
                      "X-Content-Type-Options", "nosniff"),
                    "Access-Control-Allow-Origin", OriginOrStar(request)),
                  {})
    ELSE Response(200, "", {},
             SetHeader(SetHeader(NoHeaders, "Allow", "GET, HEAD, POST, OPTIONS"),
                       "Content-Type", "text/plain"),
             {})

\* The end of fetch: the three CORS headers are set on the handler's
\* response; getValidatedOrigin may throw here too, and then fetch does.
fetchReturn(request, response) ==
    IF response.threw \/ getValidatedOrigin(request).threw THEN Uncaught
    ELSE [response EXCEPT !.headers =
            SetHeader(
              SetHeader(
                SetHeader(response.headers, "Access-Control-Allow-Origin",
                          OriginOrStar(request)),
                "Access-Control-Allow-Methods",
                "GET, POST, PUT, DELETE, OPTIONS"),
              "Access-Control-Allow-Credentials", "true")]

---------------------------------------------------------------------------
(* State.                                                                  *)

Idle == [pc |-> "idle", req |-> Request("", "", NONE, NONE, NONE, NULL, NoBody),
         row |-> NoRow, existed |-> FALSE, calls |-> {}]

\* An exchange: the request, the handler's response, what fetch returned,
\* the outbound calls issued for it with what each did, the text the
\* session service replied to a create call, whether the username of a
\* registration had a row when the request came, and the rows and sessions
\* the exchange added and removed.
Exchange(request, response, calls, reply, existed, added, created, deleted) ==
    [req |-> request, handler |-> response,
     out |-> fetchReturn(request, response), calls |-> calls,
     reply |-> reply, existed |-> existed, added |-> added,
     created |-> created, deleted |-> deleted]

NoExchange ==
    [req |-> Idle.req, handler |-> Uncaught, out |-> Uncaught, calls |-> {},
     reply |-> NULL, existed |-> FALSE, added |-> {}, created |-> {},
     deleted |-> {}]

\* An outbound call with what the service did with it.
Call(name, outcome) == <<name, outcome>>

\* Requests suspended at the INSERT of a registration, at the create call
\* of a login.
Pending(pc) == {w \in Workers : inflight[w].pc = pc}

\* No pure function of the Worker has been applied on its own.
NoProbe == [fn |-> "none"]

Init ==
    /\ users = <<>>
    /\ unique \in BOOLEAN
    /\ sessions = [id \in {} |-> SessionNotFound]
    /\ issued = 0
    /\ inflight = [w \in Workers |-> Idle]
    /\ last = NoExchange
    /\ client = [stage |-> 0, cookie |-> NULL, user |-> NoBody]
    /\ probe = NoProbe

---------------------------------------------------------------------------
(* The handlers.  A request that is answered without an await on a service *)
(* between two accesses to shared state is one action; handleRegister and  *)
(* handleLogin are suspended between their two outbound calls.             *)

\* The exchange is over: fetch stamps the response and returns it.
Finish(request, response, calls, reply, existed, added, created, deleted) ==
    last' = Exchange(request, response, calls, reply, existed, added,
                     created, deleted)

\* Mutant of RequiredFieldsPresent: only the username is required.
RequiredFieldsPresentUsernameOnly(body) == Truthy(body.username)

\* handleRegister's `!username || !password` does not hold.
RequiredFieldsPresent(body) == Truthy(body.username) /\ Truthy(body.password)

\* handleRegister's `existingUser.success && existingUser.results.length > 0`
UserFound(existingUser) ==
    existingUser.success /\ Len(existingUser.results) > 0

\* handleRegister up to the answer of the existence query: the body is
\* parsed and validated, the SELECT is issued, and the handler goes on to
\* the INSERT unless the SELECT found the user.  Everything is inside the
\* try block.
handleRegisterQuery(w, request, q) ==
    /\ inflight[w].pc = "idle"
    /\ UNCHANGED <<users, unique, sessions, issued>>
    /\ IF ~request.body.json
       THEN /\ q = "ok"
            /\ Finish(request, InternalError, {}, NULL, FALSE, {}, {}, {})
            /\ UNCHANGED inflight
       ELSE IF ~RequiredFieldsPresent(request.body)
       THEN /\ q = "ok"
            /\ Finish(request, MissingFields, {}, NULL, FALSE, {}, {}, {})
            /\ UNCHANGED inflight
       ELSE LET existed == Len(RowsOf(request.body.username)) > 0
                calls == {Call("query", q)}
            IN  IF q = "throw"
                THEN /\ Finish(request, InternalError, calls, NULL, existed,
                               {}, {}, {})
                     /\ UNCHANGED inflight
                ELSE IF UserFound(QueryResult(request.body.username, q))
                THEN /\ Finish(request, UserExists, calls, NULL, existed,
                               {}, {}, {})
                     /\ UNCHANGED inflight
                ELSE /\ Len(users) + Cardinality(Pending("register_insert"))
                            < MaxUsers
                     /\ inflight' = [inflight EXCEPT ![w] =
                            [pc |-> "register_insert", req |-> request,
                             row |-> NoRow, existed |-> existed,
                             calls |-> calls]]
                     /\ last' = NoExchange

\* handleRegister from the INSERT on: the password is hashed with a fresh
\* salt and the row inserted; a store that enforces unique usernames throws
\* on a username it holds, and the catch block answers 500.
handleRegisterInsert(w, salt, outcome) ==
    /\ inflight[w].pc = "register_insert"
    /\ LET request == inflight[w].req
           body == request.body
           row == Row(body.username, hashPassword(body.password, salt),
                      body.firstName, body.lastName)
           conflict == unique /\ Len(RowsOf(body.username)) > 0
       IN  IF outcome = "throw" \/ conflict
           THEN /\ Finish(request, InternalError,
                          inflight[w].calls \cup
                              {Call("insert",
                                    IF conflict THEN "conflict" ELSE "throw")},
                          NULL, inflight[w].existed, {}, {}, {})
                /\ UNCHANGED users
           ELSE /\ users' = Append(users, row)
                /\ Finish(request, Registered,
                          inflight[w].calls \cup {Call("insert", "ok")},
                          NULL, inflight[w].existed, {row}, {}, {})
    /\ inflight' = [inflight EXCEPT ![w] = Idle]
    /\ UNCHANGED <<unique, sessions, issued>>

\* Mutant of PasswordMatch: the result of the comparison is not looked at.
PasswordMatchSkipped(password, user) == TRUE

\* handleLogin's passwordMatch for the first row of the result.
PasswordMatch(password, user) == comparePassword(password, user.Password)

\* handleLogin up to the answer of the user query.  request.json() runs
\* before the try block; the rest is inside it.
handleLoginQuery(w, request, q) ==
    /\ inflight[w].pc = "idle"
    /\ UNCHANGED <<users, unique, sessions, issued>>
    /\ IF ~request.body.json
       THEN /\ q = "ok"
            /\ Finish(request, Uncaught, {}, NULL, FALSE, {}, {}, {})
            /\ UNCHANGED inflight
       ELSE IF ~(Truthy(request.body.username) /\ Truthy(request.body.password))
       THEN /\ q = "ok"
            /\ Finish(request, LoginFailed, {}, NULL, FALSE, {}, {}, {})
            /\ UNCHANGED inflight
       ELSE LET calls == {Call("query", q)}
                result == QueryResult(request.body.username, q).results
            IN  IF q = "throw" \/ Len(result) = 0
                THEN /\ Finish(request, LoginFailed, calls, NULL, FALSE,
                               {}, {}, {})
                     /\ UNCHANGED inflight
                ELSE IF ~PasswordMatch(request.body.password, result[1])
                THEN /\ Finish(request, InvalidCredentials, calls, NULL,
                               FALSE, {}, {}, {})
                     /\ UNCHANGED inflight
                ELSE /\ issued + Cardinality(Pending("login_create"))
                            < MaxSessions
                     /\ inflight' = [inflight EXCEPT ![w] =
                            [pc |-> "login_create", req |-> request,
                             row |-> result[1], existed |-> FALSE,
                             calls |-> calls]]
                     /\ last' = NoExchange

\* handleLogin from the create call on: the session service stores the
\* session data under a fresh id and replies with the id, or replies with
\* an error response, or cannot be reached; the reply's text, whatever it
\* is, goes into the cookie.
handleLoginCreate(w, outcome) ==
    /\ inflight[w].pc = "login_create"
    /\ LET request == inflight[w].req
           user == inflight[w].row
           sessionData == Json(user.Username, user.FirstName, user.LastName,
                               UNDEFINED)
           calls == inflight[w].calls \cup {Call("create", outcome)}
           id == IdText(issued + 1)
       IN  CASE outcome = "throw" ->
                  /\ Finish(request, LoginFailed, calls, NULL, FALSE,
                            {}, {}, {})
                  /\ UNCHANGED <<sessions, issued>>
             [] outcome = "error" ->
                  /\ Finish(request, LoginReplied(request, <<>>), calls, <<>>,
                            FALSE, {}, {}, {})
                  /\ UNCHANGED <<sessions, issued>>
             [] OTHER ->
                  /\ sessions' = [s \in DOMAIN sessions \cup {id} |->
                                     IF s = id THEN sessionData
                                     ELSE sessions[s]]
                  /\ issued' = issued + 1
                  /\ Finish(request, LoginReplied(request, id), calls, id,
                            FALSE, {}, {id}, {})
    /\ inflight' = [inflight EXCEPT ![w] = Idle]
    /\ UNCHANGED <<users, unique>>

\* handleLogout: the delete call is awaited outside any try block.
handleLogout(request, outcome) ==
    LET sessionId == SessionIdOf(request.cookie)
        calls == {Call("delete", outcome)}
    IN  /\ UNCHANGED <<users, unique, issued, inflight>>
        /\ IF ~Truthy(sessionId)
           THEN /\ outcome = "ok"
                /\ Finish(request, LogoutSuccessful, {}, NULL, FALSE,
                          {}, {}, {})
                /\ UNCHANGED sessions
           ELSE CASE outcome = "throw" ->
                       /\ Finish(request, Uncaught, calls, NULL, FALSE,
                                 {}, {}, {})
                       /\ UNCHANGED sessions
                  [] outcome = "error" ->
                       /\ Finish(request, LogoutSuccessful, calls, NULL,
                                 FALSE, {}, {}, {})
                       /\ UNCHANGED sessions
                  [] OTHER ->
                       /\ sessions' = [s \in DOMAIN sessions \ {sessionId} |->
                                          sessions[s]]
                       /\ Finish(request, LogoutSuccessful, calls, NULL,
                                 FALSE, {}, {},
                                 DOMAIN sessions \cap {sessionId})

\* handleLoadUser: the get call and loadResponse.json() are outside any try
\* block; the JSON of the reply is returned as it is.
handleLoadUser(request, outcome) ==
    LET sessionId == SessionIdOf(request.cookie)
        calls == {Call("get", outcome)}
        sessionData == IF sessionId \in DOMAIN sessions
                       THEN sessions[sessionId]
                       ELSE SessionNotFound
    IN  /\ UNCHANGED <<users, unique, sessions, issued, inflight>>
        /\ IF ~Truthy(sessionId)
           THEN /\ outcome = "ok"
                /\ Finish(request, NotLoggedIn, {}, NULL, FALSE, {}, {}, {})
           ELSE IF outcome = "ok"
           THEN Finish(request, SessionLoaded(request, sessionData), calls,
                       NULL, FALSE, {}, {}, {})
           ELSE Finish(request, Uncaught, calls, NULL, FALSE, {}, {}, {})

\* Mutant of handleForgotPassword: the reset is carried out, and blanks the
\* stored passwords.
handleForgotPasswordResetting(request) ==
    /\ users' = [i \in 1..Len(users) |-> [users[i] EXCEPT !.Password = <<>>]]
    /\ UNCHANGED <<unique, sessions, issued, inflight>>
    /\ Finish(request,
              IF request.body.json THEN PasswordResetInitiated ELSE Uncaught,
              {}, NULL, FALSE, {}, {}, {})

\* handleForgotPassword: request.json() is outside any try block.
handleForgotPassword(request) ==
    /\ UNCHANGED <<users, unique, sessions, issued, inflight>>
    /\ Finish(request,
              IF request.body.json THEN PasswordResetInitiated ELSE Uncaught,
              {}, NULL, FALSE, {}, {}, {})

\* fetch for an OPTIONS request.
Options(request) ==
    /\ UNCHANGED <<users, unique, sessions, issued, inflight>>
    /\ Finish(request, handleOptions(request), {}, NULL, FALSE, {}, {}, {})

\* fetch for a path that is none of the five.
Unmatched(request) ==
    /\ UNCHANGED <<users, unique, sessions, issued, inflight>>
    /\ Finish(request, NotFound, {}, NULL, FALSE, {}, {}, {})

---------------------------------------------------------------------------
(* The Worker serving requests one after the other, with the two services  *)
(* free to fail.                                                           *)

\* No request is suspended and no response is on its way out.
Quiet == last = NoExchange /\ \A w \in Workers : inflight[w].pc = "idle"

\* fetch has returned the response of the exchange.
Return ==
    /\ last # NoExchange
    /\ last' = NoExchange
    /\ UNCHANGED <<users, unique, sessions, issued, inflight, client, probe>>

Register ==
    /\ Quiet
    /\ \E w \in Workers, request \in RegisterRequests, q \in QueryOutcomes :
           handleRegisterQuery(w, request, q)
    /\ UNCHANGED <<client, probe>>

Insert ==
    /\ last = NoExchange
    /\ \E w \in Workers, salt \in Salts, outcome \in InsertOutcomes :
           handleRegisterInsert(w, salt, outcome)
    /\ UNCHANGED <<client, probe>>

Login ==
    /\ Quiet
    /\ \E w \in Workers, request \in LoginRequests, q \in QueryOutcomes :
           handleLoginQuery(w, request, q)
    /\ UNCHANGED <<client, probe>>

Create ==
    /\ last = NoExchange
    /\ \E w \in Workers, outcome \in FetchOutcomes : handleLoginCreate(w, outcome)
    /\ UNCHANGED <<client, probe>>

LogoutAny ==
    /\ Quiet
    /\ \E request \in LogoutRequests, outcome \in FetchOutcomes :
           handleLogout(request, outcome)
    /\ UNCHANGED <<client, probe>>

LoadUserAny ==
    /\ Quiet
    /\ \E request \in LoadUserRequests, outcome \in FetchOutcomes :
           handleLoadUser(request, outcome)
    /\ UNCHANGED <<client, probe>>

ForgotPasswordAny ==
    /\ Quiet
    /\ \E request \in ForgotPasswordRequests : handleForgotPassword(request)
    /\ UNCHANGED <<client, probe>>

OptionsAny ==
    /\ Quiet
    /\ \E request \in OptionsRequests : Options(request)
    /\ UNCHANGED <<client, probe>>

UnmatchedAny ==
    /\ Quiet
    /\ \E request \in OtherRequests : Unmatched(request)
    /\ UNCHANGED <<client, probe>>

Next ==
    \/ Register
    \/ Insert
    \/ Login
    \/ Create
    \/ LogoutAny
    \/ LoadUserAny
    \/ ForgotPasswordAny
    \/ OptionsAny
    \/ UnmatchedAny
    \/ Return

Spec == Init /\ [][Next]_vars

---------------------------------------------------------------------------
(* Two registrations at a time: a request is received while another is     *)
(* suspended between its existence query and its INSERT.                   *)

RaceRegister ==
    /\ last = NoExchange
    /\ \E w \in Workers, request \in RegisterRequests, q \in QueryOutcomes :
           handleRegisterQuery(w, request, q)
    /\ UNCHANGED <<client, probe>>

NextRace ==
    \/ RaceRegister
    \/ Insert
    \/ Return

SpecRace == Init /\ [][NextRace]_vars

---------------------------------------------------------------------------
(* Requests of several clients interleaved: a registration, a login, a     *)
(* logout, a load-user or a forgot-password request is received while      *)
(* others are suspended between their two outbound calls.  The requests carry no Origin header, *)
(* and the user store answers a SELECT or throws.                          *)

InterleavedRegister ==
    /\ last = NoExchange
    /\ \E w \in Workers, request \in RegisterRequests, q \in {"ok", "throw"} :
           /\ request.origin = NONE
           /\ handleRegisterQuery(w, request, q)
    /\ UNCHANGED <<client, probe>>

InterleavedLogin ==
    /\ last = NoExchange
    /\ \E w \in Workers, request \in LoginRequests, q \in {"ok", "throw"} :
           /\ request.origin = NONE
           /\ handleLoginQuery(w, request, q)
    /\ UNCHANGED <<client, probe>>

InterleavedLogout ==
    /\ last = NoExchange
    /\ \E request \in LogoutRequests, outcome \in FetchOutcomes :
           /\ request.origin = NONE
           /\ handleLogout(request, outcome)
    /\ UNCHANGED <<client, probe>>

InterleavedLoadUser ==
    /\ last = NoExchange
    /\ \E request \in LoadUserRequests, outcome \in FetchOutcomes :
           /\ request.origin = NONE
           /\ handleLoadUser(request, outcome)
    /\ UNCHANGED <<client, probe>>

InterleavedForgotPassword ==
    /\ last = NoExchange
    /\ \E request \in ForgotPasswordRequests :
           /\ request.origin = NONE
           /\ handleForgotPassword(request)
    /\ UNCHANGED <<client, probe>>

NextInterleaved ==
    \/ InterleavedRegister
    \/ Insert
    \/ InterleavedLogin
    \/ Create
    \/ InterleavedLogout
    \/ InterleavedLoadUser
    \/ InterleavedForgotPassword
    \/ Return

SpecInterleaved == Init /\ [][NextInterleaved]_vars

---------------------------------------------------------------------------
(* One client going through the session lifecycle, with both services      *)
(* serving every call: register, login, load-user with the cookie of the   *)
(* login, logout with it, load-user with the cookie of the logout.  The    *)
(* client counts the requests it has sent and keeps the cookie it was      *)
(* given last.                                                             *)

\* The Origin headers of a client that sends none or a web origin.
WebOrigins == {NONE, "https://app.example"}

ClientRegister ==
    /\ Quiet
    /\ client.stage = 0
    /\ \E request \in RegisterRequests :
           /\ request.origin \in WebOrigins
           /\ request.body.json
           /\ Truthy(request.body.username)
           /\ Truthy(request.body.password)
           /\ Len(RowsOf(request.body.username)) = 0
           /\ handleRegisterQuery("w1", request, "ok")
           /\ client' = [stage |-> 1, cookie |-> NULL, user |-> request.body]
           /\ UNCHANGED probe

ClientInsert ==
    /\ last = NoExchange
    /\ \E salt \in Salts : handleRegisterInsert("w1", salt, "ok")
    /\ UNCHANGED <<client, probe>>

ClientLogin ==
    /\ Quiet
    /\ client.stage = 1
    /\ \E o \in WebOrigins :
           handleLoginQuery("w1",
               Request("POST", "/login", o, NONE, NONE, NULL,
                   Body(TRUE, client.user.username, client.user.password,
                        UNDEFINED, UNDEFINED)),
               "ok")
    /\ client' = [client EXCEPT !.stage = 2]
    /\ UNCHANGED probe

ClientCreate ==
    /\ last = NoExchange
    /\ handleLoginCreate("w1", "ok")
    /\ UNCHANGED <<client, probe>>

ClientLoadUser ==
    /\ Quiet
    /\ client.stage \in {2, 4}
    /\ \E o \in WebOrigins :
           handleLoadUser(Request("GET", "/load-user", o, NONE, NONE, client.cookie,
                            NoBody), "ok")
    /\ client' = [client EXCEPT !.stage = @ + 1]
    /\ UNCHANGED probe

ClientLogout ==
    /\ Quiet
    /\ client.stage = 3
    /\ \E o \in WebOrigins :
           handleLogout(Request("POST", "/logout", o, NONE, NONE, client.cookie,
                          NoBody), "ok")
    /\ client' = [client EXCEPT !.stage = 4]
    /\ UNCHANGED probe

\* The response reaches the client, which keeps the cookie of a Set-Cookie
\* header; after the fifth response it starts over as another user.
ClientReturn ==
    /\ last # NoExchange
    /\ last' = NoExchange
    /\ client' =
         IF client.stage = 5
         THEN [stage |-> 0, cookie |-> NULL, user |-> NoBody]
         ELSE IF last.out.setCookie = {} THEN client
         ELSE [client EXCEPT !.cookie =
                 CookieHeaderFor(CHOOSE c \in last.out.setCookie : TRUE)]
    /\ UNCHANGED <<users, unique, sessions, issued, inflight, probe>>

NextClient ==
    \/ ClientRegister
    \/ ClientInsert
    \/ ClientLogin
    \/ ClientCreate
    \/ ClientLoadUser
    \/ ClientLogout
    \/ ClientReturn

SpecClient == Init /\ [][NextClient]_vars

---------------------------------------------------------------------------
(* The password functions on their own: hashPassword applied to a password *)
(* with a salt it draws, then comparePassword applied to a password and    *)
(* the text hashPassword gave, or to a stored text without ':'.            *)

\* The texts of at most n characters of an alphabet.
TextsUpTo(alphabet, n) == UNION {[1..k -> alphabet] : k \in 0..n}

\* Passwords: letters, a digit, and the ':' the stored text is split on.
ProbePasswords == TextsUpTo({"p", "q", "2", ":"}, MaxPasswordLen)

\* Salts hashPassword may draw: decimal digits of different lengths.
DrawnSalts == {<<"4">>, <<"4", "2">>, <<"2", "4", "7">>}

\* Stored texts without ':': empty, digits, hex digits.
MalformedStored == {<<>>, <<"4", "2">>, <<"a">>, <<"1", "2", "a">>}

\* A boolean as the text of the probe's result.
BoolText(b) == IF b THEN "true" ELSE "false"

InitPassword ==
    /\ users = <<>>
    /\ unique \in BOOLEAN
    /\ sessions = [id \in {} |-> SessionNotFound]
    /\ issued = 0
    /\ inflight = [w \in Workers |-> Idle]
    /\ last = NoExchange
    /\ client = [stage |-> 0, cookie |-> NULL, user |-> NoBody]
    /\ \E password \in ProbePasswords, provided \in ProbePasswords :
           probe = [fn |-> "start", password |-> password,
                    provided |-> provided, stored |-> NULL, result |-> "none"]

\* hashPassword(password)
PasswordHash ==
    /\ probe.fn = "start"
    /\ \E salt \in DrawnSalts :
           probe' = [probe EXCEPT !.fn = "hashed",
                                  !.stored = hashPassword(probe.password, salt)]
    /\ UNCHANGED <<users, unique, sessions, issued, inflight, last, client>>

\* comparePassword(provided, stored) for the text hashPassword gave
PasswordCompare ==
    /\ probe.fn = "hashed"
    /\ probe' = [probe EXCEPT !.fn = "compared",
                              !.result = BoolText(comparePassword(probe.provided,
                                                                  probe.stored))]
    /\ UNCHANGED <<users, unique, sessions, issued, inflight, last, client>>

\* comparePassword(provided, stored) for a stored text without ':'
PasswordCompareMalformed ==
    /\ probe.fn = "start"
    /\ \E stored \in MalformedStored :
           probe' = [probe EXCEPT !.fn = "compared_malformed",
                                  !.stored = stored,
                                  !.result = BoolText(comparePassword(probe.provided,
                                                                      stored))]
    /\ UNCHANGED <<users, unique, sessions, issued, inflight, last, client>>

NextPassword ==
    \/ PasswordHash
    \/ PasswordCompare
    \/ PasswordCompareMalformed

SpecPassword == InitPassword /\ [][NextPassword]_vars

---------------------------------------------------------------------------
(* The cookie decoding on its own: the lines handleLoadUser and            *)
(* handleLogout both start with, applied to the Cookie header a client     *)
(* sends for a session id.                                                 *)

\* Session ids a session service may issue: texts that are not empty, with
\* and without '='.
ProbeIds == TextsUpTo({"s", "1", "="}, MaxIdLen) \ {<<>>}

\* The ways a Cookie header carries the session cookie, or does not.
HeaderShapes == {"alone", "after", "before", "no entry", "no header"}

\* The Cookie header of that shape for the session id.
ProbeHeader(shape, id) ==
    CASE shape = "alone" -> CookiePrefix \o id
      [] shape = "after" -> <<"t", "=", "1", ";", " ">> \o CookiePrefix \o id
      [] shape = "before" -> CookiePrefix \o id \o <<";", " ", "t", "=", "1">>
      [] shape = "no entry" -> <<"t", "=", "1">>
      [] OTHER -> NULL

InitCookie ==
    /\ users = <<>>
    /\ unique \in BOOLEAN
    /\ sessions = [id \in {} |-> SessionNotFound]
    /\ issued = 0
    /\ inflight = [w \in Workers |-> Idle]
    /\ last = NoExchange
    /\ client = [stage |-> 0, cookie |-> NULL, user |-> NoBody]
    /\ \E shape \in HeaderShapes, id \in ProbeIds :
           probe = [fn |-> "start", shape |-> shape, id |-> id,
                    header |-> ProbeHeader(shape, id), result |-> NULL]

\* The decoding at the start of handleLoadUser.
DecodeLoadUser ==
    /\ probe.fn = "start"
    /\ probe' = [probe EXCEPT !.fn = "handleLoadUser",
                              !.result = SessionIdOf(probe.header)]
    /\ UNCHANGED <<users, unique, sessions, issued, inflight, last, client>>

\* The decoding at the start of handleLogout.
DecodeLogout ==
    /\ probe.fn = "start"
    /\ probe' = [probe EXCEPT !.fn = "handleLogout",
                              !.result = SessionIdOf(probe.header)]
    /\ UNCHANGED <<users, unique, sessions, issued, inflight, last, client>>

NextCookie ==
    \/ DecodeLoadUser
    \/ DecodeLogout

SpecCookie == InitCookie /\ [][NextCookie]_vars

---------------------------------------------------------------------------
(* The claims.                                                             *)

\* The exchange being returned is a request that fetch gave to the handler
\* of this path.
Served(path) ==
    last # NoExchange /\ last.req.method # "OPTIONS" /\ last.req.path = path

\* Some call of that name was issued for the exchange being returned.
Issued(name) == \E c \in last.calls : c[1] = name

\* The call of that name did that.
Did(name, outcome) == Call(name, outcome) \in last.calls

\* The session data of the user the client registered as.
ClientSessionData ==
    Json(client.user.username, client.user.firstName, client.user.lastName,
         UNDEFINED)

\* C1: the session lifecycle end to end.  For a client that registers with
\* a username the store does not hold, then logs in, loads the user with
\* the cookie of the login, logs out with it and loads the user with the
\* cookie of the logout (both services serving every call, session ids
\* without '='): the five responses are 201; 200 with a cfw_session cookie;
\* 200 with the username, first name and last name given at registration;
\* 200 with the cleared cookie; and 401, the request carrying cfw_session
\* with an empty value.
C1_SessionLifecycle ==
    last # NoExchange =>
      /\ client.stage = 1 => /\ last.req.path = "/register"
                             /\ ~last.out.threw
                             /\ last.out.status = 201
      /\ client.stage = 2 => /\ last.req.path = "/login"
                             /\ ~last.out.threw
                             /\ last.out.status = 200
                             /\ Cardinality(last.out.setCookie) = 1
                             /\ \A c \in last.out.setCookie :
                                    c.name = CookieName /\ Truthy(c.value)
      /\ client.stage = 3 => /\ last.req.path = "/load-user"
                             /\ last.req.cookie # NULL
                             /\ ~last.out.threw
                             /\ last.out.status = 200
                             /\ last.out.data = {ClientSessionData}
      /\ client.stage = 4 => /\ last.req.path = "/logout"
                             /\ ~last.out.threw
                             /\ last.out.status = 200
                             /\ last.out.setCookie = {ClearedCookie}
      /\ client.stage = 5 => /\ last.req.path = "/load-user"
                             /\ last.req.cookie = CookiePrefix
                             /\ ~last.out.threw
                             /\ last.out.status = 401

\* C1, witness: the fifth response of a client that is the second user of
\* the store.
C1_LifecycleCompleted ==
    /\ client.stage = 5
    /\ last # NoExchange
    /\ last.out.status = 401
    /\ Len(users) = 2
    /\ issued = 2
    /\ DOMAIN sessions = {}

\* The rows of the username of the request, none of which the password of
\* the request verifies against.
NoRowVerifies(body) ==
    \A i \in 1..Len(RowsOf(body.username)) :
        ~comparePassword(body.password, RowsOf(body.username)[i].Password)

\* C2: a login whose username has no row in the store, or whose password
\* verifies against no stored hash of that username, is answered 401 by
\* handleLogin without a Set-Cookie header and without a create call to
\* the session service; what fetch returns for it is that 401, without a
\* Set-Cookie header.
C2_LoginRejected ==
    (Served("/login") /\ last.req.body.json /\ NoRowVerifies(last.req.body)) =>
        /\ ~last.handler.threw
        /\ last.handler.status = 401
        /\ last.handler.setCookie = {}
        /\ ~Issued("create")
        /\ last.created = {}
        /\ last.out.setCookie = {}
        /\ ~last.out.threw => last.out.status = 401

\* C2, witness: a login with the username of a row and a password that
\* does not verify against its hash has been answered.
C2_WrongPasswordAnswered ==
    /\ Served("/login")
    /\ last.req.body.json
    /\ Truthy(last.req.body.password)
    /\ Len(RowsOf(last.req.body.username)) > 0
    /\ NoRowVerifies(last.req.body)
    /\ last.handler.status = 401
    /\ Did("query", "ok")


\* C3: handleLogin is fail-closed.  A login whose body is not JSON, whose
\* user query throws or whose create call throws is answered 401 'Login
\* failed'; none of them ends handleLogin with an exception.
C3_LoginFailClosed ==
    (/\ Served("/login")
     /\ \/ ~last.req.body.json
        \/ Did("query", "throw")
        \/ Did("create", "throw")) =>
        /\ ~last.handler.threw
        /\ last.handler.status = 401
        /\ last.handler.msg = "Login failed"

\* C4: logout never fails outward.  A logout whose delete call fails (the
\* session service throws or answers with an error) is still answered 200
\* 'Logout successful' with the cookie-clearing Set-Cookie header.
C4_LogoutNeverFails ==
    (Served("/logout") /\ (Did("delete", "throw") \/ Did("delete", "error"))) =>
        /\ ~last.handler.threw
        /\ last.handler.status = 200
        /\ last.handler.msg = "Logout successful"
        /\ last.handler.setCookie = {ClearedCookie}

\* What the specification's validate gives for an Origin header: the
\* header where it is a URL with scheme http or https, null otherwise.
ValidOrigin(origin) ==
    IF origin # NONE /\ URLProtocol(origin) \in {"http:", "https:"}
    THEN origin
    ELSE NONE

\* C5: every request to fetch, whatever its method, path, Origin header
\* and handler outcome, ends in a response with Access-Control-Allow-Origin
\* the validated origin, or '*' where validation gives none, with the full
\* verb list in Access-Control-Allow-Methods and with
\* Access-Control-Allow-Credentials 'true'.
C5_CorsOnEveryResponse ==
    last # NoExchange =>
        /\ ~last.out.threw
        /\ {"Access-Control-Allow-Origin", "Access-Control-Allow-Methods",
            "Access-Control-Allow-Credentials"} \subseteq DOMAIN last.out.headers
        /\ last.out.headers["Access-Control-Allow-Origin"] =
               (IF ValidOrigin(last.req.origin) = NONE THEN "*"
                ELSE ValidOrigin(last.req.origin))
        /\ last.out.headers["Access-Control-Allow-Methods"] =
               "GET, POST, PUT, DELETE, OPTIONS"
        /\ last.out.headers["Access-Control-Allow-Credentials"] = "true"

\* C6: getValidatedOrigin never throws.  For every request it returns null
\* where the Origin header is absent, is not a URL or has a scheme other
\* than http and https, and the header unchanged otherwise.
C6_ValidatorNeverThrows ==
    last # NoExchange =>
        /\ ~getValidatedOrigin(last.req).threw
        /\ getValidatedOrigin(last.req).value = ValidOrigin(last.req.origin)

\* C7: the registration race.  The existence query and the INSERT are two
\* steps, so a registration whose query found no row of its username may
\* come to its INSERT when the store holds one.  A store that does not
\* enforce unique usernames then runs the INSERT: the request is answered
\* 201, as every request that added a row, and the store holds two rows of
\* the username.  A store that enforces them throws: the request is
\* answered 500, and no username ever has two rows.
C7_RegistrationRace ==
    /\ unique => \A u \in Usernames : Len(RowsOf(u)) <= 1
    /\ (Served("/register") /\ Issued("insert") /\ Did("query", "ok")
            /\ ~last.existed) =>
         /\ Did("insert", "ok") =>
              /\ last.handler.status = 201
              /\ Cardinality(last.added) = 1
              /\ \A row \in last.added :
                     /\ row.Username = last.req.body.username
                     /\ \E i \in 1..Len(users) : users[i] = row
              /\ Len(RowsOf(last.req.body.username)) > 1 => ~unique
         /\ Did("insert", "conflict") =>
              /\ unique
              /\ last.handler.status = 500
              /\ last.added = {}
              /\ Len(RowsOf(last.req.body.username)) = 1

\* C7, witness: in a store that does not enforce unique usernames, a
\* registration whose existence query was answered and found nothing has
\* been answered 201 and the store holds two rows of its username: the
\* other row came between its query and its INSERT.
C7_DuplicateRegistered ==
    /\ ~unique
    /\ Served("/register")
    /\ Did("query", "ok")
    /\ ~last.existed
    /\ Did("insert", "ok")
    /\ last.handler.status = 201
    /\ Len(RowsOf(last.req.body.username)) = 2

\* In a store that enforces unique usernames, the late INSERT of the race
\* has failed and the request has been answered 500.
LateInsertRefused ==
    /\ unique
    /\ Served("/register")
    /\ Did("query", "ok")
    /\ ~last.existed
    /\ Did("insert", "conflict")
    /\ last.handler.status = 500

\* Two registrations of one username are past their existence queries and
\* neither has inserted.
BothPastTheCheck ==
    /\ \A w \in Workers : inflight[w].pc = "register_insert"
    /\ \A v, w \in Workers :
           inflight[v].req.body.username = inflight[w].req.body.username
    /\ \A w \in Workers : ~inflight[w].existed /\ Call("query", "ok") \in inflight[w].calls

\* C8: a registration for a username that has a row in the store is
\* answered 409 and issues no INSERT, whatever the existence query did.
C8_ExistingUserConflict ==
    (Served("/register") /\ last.existed) =>
        /\ ~last.handler.threw
        /\ last.handler.status = 409
        /\ ~Issued("insert")

\* C9: a registration whose JSON body has no username or no password, or
\* an empty one, is answered 400 by handleRegister; no query and no INSERT
\* is issued for it, and the step that answers it leaves the rows of the
\* store as they were.
C9_MissingFields ==
    /\ [](  (/\ Served("/register")
             /\ last.req.body.json
             /\ ~(Truthy(last.req.body.username) /\ Truthy(last.req.body.password))) =>
               /\ ~last.handler.threw
               /\ last.handler.status = 400
               /\ last.calls = {}
               /\ last.added = {})
    /\ [][ (/\ last' # NoExchange
            /\ last'.req.path = "/register"
            /\ last'.req.body.json
            /\ ~(Truthy(last'.req.body.username)
                   /\ Truthy(last'.req.body.password))) =>
              users' = users ]_vars

\* C9, witness: a registration with a username and without a password has
\* been answered 400 when the store held a row.
C9_MissingPasswordAnswered ==
    /\ Served("/register")
    /\ last.req.body.json
    /\ Truthy(last.req.body.username)
    /\ last.req.body.password = UNDEFINED
    /\ last.handler.status = 400
    /\ Len(users) > 0

\* C10: a login with correct credentials, whatever the session service
\* replied to the create call, is answered 200 by handleLogin with a
\* Set-Cookie header whose cfw_session value is not empty and is the reply,
\* with Secure, Path=/, SameSite=None and Max-Age=1800.
C10_LoginCookie ==
    (Served("/login") /\ last.reply # NULL) =>
        /\ ~last.handler.threw
        /\ last.handler.status = 200
        /\ Cardinality(last.handler.setCookie) = 1
        /\ \A c \in last.handler.setCookie :
               /\ c.name = CookieName
               /\ Truthy(c.value)
               /\ c.value = last.reply
               /\ c.attrs = {"Secure", "Path=/", "SameSite=None"}
               /\ c.maxAge = 1800

\* The text after the first '=' of a cookie entry.
ValueAfterFirstEquals(entry) ==
    LET first == CHOOSE k \in SepPositions(entry, "=") :
                     \A j \in SepPositions(entry, "=") : k <= j
    IN  SubSeq(entry, first + 1, Len(entry))

\* The session id a Cookie header presents, as the specification decodes
\* it: the header split on ';', the entries trimmed, the value of the entry
\* named cfw_session; null without the header or without the entry.
PresentedId(cookieHeader) ==
    IF cookieHeader = NULL THEN NULL
    ELSE LET pieces == Split(cookieHeader, ";")
             entries == [i \in 1..Len(pieces) |-> Trim(pieces[i])]
             entry == FindStartsWith(entries, CookiePrefix)
         IN  IF entry = UNDEFINED THEN NULL
             ELSE ValueAfterFirstEquals(entry)

\* What the session service answers get/<id> with.
ServiceGet(id) ==
    IF id \in DOMAIN sessions THEN sessions[id] ELSE SessionNotFound

\* C11: a load-user request whose cookie presents session id S, the
\* session service answering the get call, is answered 200 by
\* handleLoadUser with exactly the JSON the service holds for S; a request
\* without Cookie header or without cfw_session entry is answered 401 and
\* no call to the session service is issued for it.
C11_LoadUserPayload ==
    Served("/load-user") =>
        LET S == PresentedId(last.req.cookie)
        IN  /\ (Truthy(S) /\ Did("get", "ok")) =>
                  /\ ~last.handler.threw
                  /\ last.handler.status = 200
                  /\ last.handler.data = {ServiceGet(S)}
            /\ S = NULL =>
                  /\ ~last.handler.threw
                  /\ last.handler.status = 401
                  /\ last.calls = {}

\* C12: logout is idempotent.  Every logout request, whatever its cookie
\* and whatever sessions the store holds, is answered 200 by handleLogout
\* with the Set-Cookie header
\* 'cfw_session=; HttpOnly; Secure; SameSite=Strict; Max-Age=0'; for a
\* request that presents no session id no delete call is issued.
C12_LogoutIdempotent ==
    Served("/logout") =>
        /\ ~last.handler.threw
        /\ last.handler.status = 200
        /\ last.handler.setCookie =
               {[name |-> CookieName, value |-> <<>>,
                 attrs |-> {"HttpOnly", "Secure", "SameSite=Strict"},
                 maxAge |-> 0]}
        /\ PresentedId(last.req.cookie) = NULL =>
               /\ ~Issued("delete")
               /\ last.deleted = {}

\* The OPTIONS request has the three headers of a pre-flight request.
HasPreflightTriad(request) ==
    request.origin # NONE /\ request.acrm # NONE /\ request.acrh # NONE

\* C13: an OPTIONS request without one of Origin,
\* Access-Control-Request-Method and Access-Control-Request-Headers is
\* answered with the fallback response: it has the Allow header, it is not
\* the pre-flight response, and what fetch returns to the client does not
\* carry the request's Origin in Access-Control-Allow-Origin.  An OPTIONS
\* request with the three is answered with the pre-flight response, whose
\* Access-Control-Allow-Headers is the requested headers.
C13_OptionsFallback ==
    (last # NoExchange /\ last.req.method = "OPTIONS") =>
        /\ ~last.out.threw
        /\ IF HasPreflightTriad(last.req)
           THEN /\ "Access-Control-Allow-Headers" \in DOMAIN last.out.headers
                /\ last.out.headers["Access-Control-Allow-Headers"] =
                       last.req.acrh
                /\ "Allow" \notin DOMAIN last.out.headers
           ELSE /\ "Allow" \in DOMAIN last.out.headers
                /\ last.out.headers["Allow"] = "GET, HEAD, POST, OPTIONS"
                /\ "Access-Control-Allow-Headers" \notin DOMAIN last.out.headers
                /\ \/ "Access-Control-Allow-Origin" \notin DOMAIN last.out.headers
                   \/ last.out.headers["Access-Control-Allow-Origin"] #
                          last.req.origin

\* C14: the password round trip.  For every password P, every salt
\* hashPassword draws and every password P', comparePassword(P',
\* hashPassword(P)) is true where P' = P and false where P' differs from P;
\* comparePassword of a stored text without ':' is false.
C14_PasswordRoundTrip ==
    /\ probe.fn = "compared" =>
           /\ probe.result \in {"true", "false"}
           /\ probe.result = "true" <=> probe.provided = probe.password
    /\ probe.fn = "compared_malformed" =>
           /\ SepPositions(probe.stored, ":") = {}
           /\ probe.result = "false"

\* C14, witness: a password of two characters was hashed, and another
\* password that begins the same was refused; the right one is accepted.
C14_WrongPasswordRefused ==
    /\ probe.fn = "compared"
    /\ Len(probe.password) = 2
    /\ Len(probe.provided) = 2
    /\ probe.provided # probe.password
    /\ probe.provided[1] = probe.password[1]
    /\ probe.result = "false"
    /\ comparePassword(probe.password, probe.stored)

\* The registration being answered failed otherwise than by missing fields
\* or an existing user: its body is not JSON, or its existence query or its
\* INSERT threw.
RegisterFailed ==
    /\ Served("/register")
    /\ \/ ~last.req.body.json
       \/ Did("query", "throw")
       \/ Did("insert", "throw")
       \/ Did("insert", "conflict")

\* C15: handleRegister never ends with an exception; a registration whose
\* body is not JSON, whose existence query throws or whose INSERT throws is
\* answered 500 'Internal server error', and the step that answers a
\* registration 500 leaves the rows of the store as they were.
C15_RegisterFailures ==
    /\ [](Served("/register") => ~last.handler.threw)
    /\ [](RegisterFailed =>
            /\ last.handler.status = 500
            /\ last.handler.msg = "Internal server error"
            /\ last.handler.data = {}
            /\ last.added = {})
    /\ [][(/\ last' # NoExchange
           /\ last'.req.path = "/register"
           /\ last'.handler.status = 500) => users' = users]_vars

\* C15, witness: the INSERT of a registration threw when the store held a
\* row, and the registration has been answered 500.
C15_InsertFailedAnswered ==
    /\ Served("/register")
    /\ Did("insert", "throw")
    /\ last.handler.status = 500
    /\ Len(users) = 1

\* C16: user records are created by Register only and never change.  A
\* step that changes the rows of the store is the step in which
\* handleRegister returns 201, and the step in which handleRegister returns
\* 201 appends one row, of the username of the request, and leaves the rows
\* the store held as they were; so login, logout, load-user,
\* forgot-password, OPTIONS and unmatched requests, and a registration that
\* is not answered 201, leave the store unchanged.
C16_UserStoreFrame ==
    [][/\ users' # users =>
             /\ last' # NoExchange
             /\ last'.req.method = "POST"
             /\ last'.req.path = "/register"
             /\ ~last'.handler.threw
             /\ last'.handler.status = 201
       /\ (/\ last' # NoExchange
           /\ last'.req.method # "OPTIONS"
           /\ last'.req.path = "/register"
           /\ last'.handler.status = 201) =>
             /\ Len(users') = Len(users) + 1
             /\ SubSeq(users', 1, Len(users)) = users
             /\ users'[Len(users')].Username = last'.req.body.username
             /\ users'[Len(users')].FirstName = last'.req.body.firstName
             /\ users'[Len(users')].LastName = last'.req.body.lastName]_vars

\* C16, witness: a registration has been answered 201 and its row is the
\* second of the store, after the row the store held.
C16_SecondRecordAdded ==
    /\ Served("/register")
    /\ last.handler.status = 201
    /\ Len(users) = 2
    /\ last.added = {users[2]}
    /\ users[1] # users[2]

\* C17: the cookie round trip.  For every session id S, with or without
\* '=', the decoding in handleLoadUser and in handleLogout of a Cookie
\* header that carries cfw_session=S gives S, the whole text after the
\* first '='; of no header and of a header without the entry it gives no
\* session id.
C17_CookieRoundTrip ==
    probe.fn \in {"handleLoadUser", "handleLogout"} =>
        IF probe.shape \in {"alone", "after", "before"}
        THEN /\ PresentedId(probe.header) = probe.id
             /\ probe.result = probe.id
        ELSE probe.result = NULL

\* C18: handleLoadUser does not tell a session that was found from one
\* that was not.  A load-user request that presents a session id that is
\* not empty, the session service answering the get call with JSON, is
\* answered 200 with that JSON, also where the service holds no session of
\* the id; a load-user request is answered 401 only where it presents no
\* session id.
C18_LoadUserFoundOrNot ==
    Served("/load-user") =>
        LET S == PresentedId(last.req.cookie)
        IN  /\ (Truthy(S) /\ Did("get", "ok")) =>
                  /\ ~last.handler.threw
                  /\ last.handler.status = 200
                  /\ S \notin DOMAIN sessions =>
                         last.handler.data = {SessionNotFound}
            /\ (~last.handler.threw /\ last.handler.status = 401) =>
                  /\ ~Truthy(S)
                  /\ ~Issued("get")

\* The session ids the session service has issued.
IssuedIds == {IdText(n) : n \in 1..issued}

\* C19: session revocation.  When handleLogout has returned its response
\* to a request that presents session id S, the session store holds no
\* session of S; the store never holds again a session of an id it has
\* issued and holds no more; and a load-user request that presents an id
\* the store does not hold is answered without a user's username, first
\* name and last name.
C19_SessionRevocation ==
    /\ []((Served("/logout") /\ ~last.handler.threw
             /\ Truthy(PresentedId(last.req.cookie))) =>
            PresentedId(last.req.cookie) \notin DOMAIN sessions)
    /\ [][\A id \in IssuedIds :
            id \notin DOMAIN sessions => id \notin DOMAIN sessions']_vars
    /\ []((Served("/load-user") /\ ~last.handler.threw
             /\ PresentedId(last.req.cookie) \notin DOMAIN sessions) =>
            \A payload \in last.handler.data :
                /\ payload.username = UNDEFINED
                /\ payload.firstName = UNDEFINED
                /\ payload.lastName = UNDEFINED)

\* The session data handleLogin builds from a row of the User table.
PayloadOf(row) == Json(row.Username, row.FirstName, row.LastName, UNDEFINED)

\* C20: sessions exist for authenticated users only.  Every session of the
\* store has an id the service issued and holds the username, first name
\* and last name of a row of the User table; a create call is issued only
\* for a login whose password verifies against the stored hash of a row of
\* its username, and the session it creates holds the fields of that row;
\* register, logout, load-user and forgot-password requests issue no
\* create call and create no session.
C20_SessionsForAuthenticated ==
    /\ DOMAIN sessions \subseteq IssuedIds
    /\ \A id \in DOMAIN sessions :
           \E i \in 1..Len(users) : sessions[id] = PayloadOf(users[i])
    /\ (last # NoExchange /\ (Issued("create") \/ last.created # {})) =>
           /\ Served("/login")
           /\ last.req.body.json
           /\ \E i \in 1..Len(users) :
                  /\ users[i].Username = last.req.body.username
                  /\ comparePassword(last.req.body.password, users[i].Password)
                  /\ \A id \in last.created :
                         /\ id \in DOMAIN sessions
                         /\ sessions[id] = PayloadOf(users[i])
    /\ \A w \in Workers :
           inflight[w].pc = "login_create" =>
               /\ inflight[w].req.path = "/login"
               /\ comparePassword(inflight[w].req.body.password,
                                  inflight[w].row.Password)
               /\ \E i \in 1..Len(users) : users[i] = inflight[w].row

\* C20, witness: the login of one user has created a session and is being
\* answered while the login of another user is suspended at its create
\* call.
C20_SessionCreatedAmongLogins ==
    /\ Served("/login")
    /\ last.created # {}
    /\ Cardinality(DOMAIN sessions) = 1
    /\ Len(users) = 2
    /\ \E w \in Workers :
           /\ inflight[w].pc = "login_create"
           /\ inflight[w].req.body.username # last.req.body.username

=============================================================================
